---- MODULE Spec2Model ----
(***************************************************************************)
(* delivery_encoder: a video is split into N equal time windows, one       *)
(* worker thread per window runs the external engine (ffmpeg) into its own *)
(* segment directory, the main thread collects one report per worker from  *)
(* a channel and, when all succeeded, moves the frames of the segments, in *)
(* segment order, into the output directory under one global numbering.    *)
(*                                                                         *)
(* File names and the probe's output are sequences of one-character        *)
(* strings, so that parsing and formatting are computed, not assumed.      *)
(* Durations are exact rationals [n, d] (n/d), or the IEEE specials.       *)
(***************************************************************************)
EXTENDS Integers, Sequences, FiniteSets, TLC

\* ------------------------------------------------------------------ bounds

\* the largest thread count std::thread::available_parallelism() reports
MaxThreads == 2
\* the largest number of frames the engine writes into one segment directory
MaxFrames == 2
\* the largest number of fs::rename calls that fail in one run
MaxMoveFailures == 1
\* how much a pipe holds before a write to it blocks, in lines
PipeCapacity == 1

\* ------------------------------------------------------- program constants

\* the minimum width of {:05} and of the engine's %05d
PadWidth == 5

\* -------------------------------------------------------------------- text

DigitChars == <<"0", "1", "2", "3", "4", "5", "6", "7", "8", "9">>

IsDigit(c) == \E k \in 1..10 : DigitChars[k] = c

DigitVal(c) == (CHOOSE k \in 1..10 : DigitChars[k] = c) - 1

IsSpace(c) == c \in {" ", "\n", "\t", "\r"}

\* the decimal digits of n >= 0, most significant first
RECURSIVE DecDigits(_)
DecDigits(n) ==
    IF n < 10 THEN <<DigitChars[n + 1]>>
    ELSE Append(DecDigits(n \div 10), DigitChars[(n % 10) + 1])

RECURSIVE ZeroPad(_, _)
ZeroPad(s, w) == IF Len(s) >= w THEN s ELSE ZeroPad(<<"0">> \o s, w)

\* format!("{:05}", n): zero-padded to at least PadWidth digits, never truncated
Pad5(n) == ZeroPad(DecDigits(n), PadWidth)

\* format!("video{:05}.png", frame_counter)
VideoName(n) == <<"v", "i", "d", "e", "o">> \o Pad5(n) \o <<".", "p", "n", "g">>

\* the engine's output pattern "%05d.png" for its local frame number n
SegmentFrameName(n) == Pad5(n) \o <<".", "p", "n", "g">>

\* str::split('.').next(): the text before the first '.', the whole text if none
RECURSIVE SplitFirst(_)
SplitFirst(s) ==
    IF s = <<>> \/ Head(s) = "." THEN <<>>
    ELSE <<Head(s)>> \o SplitFirst(Tail(s))

\* the value of a nonempty all-digit text
RECURSIVE DigitsValue(_)
DigitsValue(s) ==
    IF s = <<>> THEN 0
    ELSE DigitsValue(SubSeq(s, 1, Len(s) - 1)) * 10 + DigitVal(s[Len(s)])

AllDigits(s) == \A k \in 1..Len(s) : IsDigit(s[k])

\* Option values
None == <<>>
Some(v) == <<v>>

\* a number too large for the checker's integers is kept as its decimal digits
\* without leading zeros ("0" for zero)
RECURSIVE Canonical(_)
Canonical(digits) ==
    IF Len(digits) > 1 /\ Head(digits) = "0" THEN Canonical(Tail(digits)) ELSE digits

\* lexicographic order of two digit texts of the same length
RECURSIVE LexLess(_, _)
LexLess(a, b) ==
    /\ a # <<>>
    /\ \/ DigitVal(Head(a)) < DigitVal(Head(b))
       \/ Head(a) = Head(b) /\ LexLess(Tail(a), Tail(b))

\* the order of the numbers two canonical digit texts stand for
NumberLess(a, b) == Len(a) < Len(b) \/ (Len(a) = Len(b) /\ LexLess(a, b))

\* u32::MAX = 4294967295
U32MaxDigits == <<"4", "2", "9", "4", "9", "6", "7", "2", "9", "5">>

\* str::parse::<u32>().ok(): an optional '+', then one or more digits, of a
\* value of at most u32::MAX; the value is given by its canonical digits
ParseU32(s) ==
    LET body == IF s # <<>> /\ Head(s) = "+" THEN Tail(s) ELSE s
    IN  IF body = <<>> \/ ~AllDigits(body) THEN None
        ELSE IF NumberLess(U32MaxDigits, Canonical(body)) THEN None
        ELSE Some(Canonical(body))

\* Ord for Option<u32>: None sorts before every Some, Some by value
OptionLess(a, b) ==
    \/ a = None /\ b # None
    \/ a # None /\ b # None /\ NumberLess(a[1], b[1])

\* the position of the last '.' of s, 0 if none
LastDot(s) ==
    IF \E k \in 1..Len(s) : s[k] = "."
    THEN CHOOSE k \in 1..Len(s) : s[k] = "." /\ \A j \in (k + 1)..Len(s) : s[j] # "."
    ELSE 0

\* Path::extension(): the text after the last '.' of the file name; None when
\* there is no '.', or the only '.' is the first character
Extension(name) ==
    IF LastDot(name) <= 1 THEN None
    ELSE Some(SubSeq(name, LastDot(name) + 1, Len(name)))

PngExt == <<"p", "n", "g">>

\* the sort key of a frame path: its file name up to the first '.', as a u32
FrameKey(name) == ParseU32(SplitFirst(name))

\* ---------------------------------------------------------------- durations

RECURSIVE Gcd(_, _)
Gcd(a, b) == IF b = 0 THEN a ELSE Gcd(b, a % b)

Abs(x) == IF x < 0 THEN -x ELSE x

\* an f64 in exact arithmetic: the rational n/d in lowest terms, or a special
Num(n, d) ==
    LET g == Gcd(Abs(n), d)
    IN  [k |-> "num", n |-> n \div g, d |-> d \div g]

NaN == [k |-> "nan", n |-> 0, d |-> 1]

Inf(sign) == [k |-> "inf", n |-> sign, d |-> 1]

RECURSIVE Pow10(_)
Pow10(e) == IF e = 0 THEN 1 ELSE 10 * Pow10(e - 1)

\* str::trim(): leading and trailing whitespace removed
RECURSIVE TrimStart(_)
TrimStart(s) == IF s # <<>> /\ IsSpace(Head(s)) THEN TrimStart(Tail(s)) ELSE s

RECURSIVE TrimEnd(_)
TrimEnd(s) ==
    IF s # <<>> /\ IsSpace(s[Len(s)]) THEN TrimEnd(SubSeq(s, 1, Len(s) - 1)) ELSE s

Trim(s) == TrimEnd(TrimStart(s))

LowerChar(c) ==
    CASE c = "I" -> "i" [] c = "N" -> "n" [] c = "F" -> "f" [] c = "A" -> "a"
      [] c = "T" -> "t" [] c = "Y" -> "y" [] OTHER -> c

Lower(s) == [k \in 1..Len(s) |-> LowerChar(s[k])]

\* the position of the first '.' of s, 0 if none
FirstDot(s) ==
    IF \E k \in 1..Len(s) : s[k] = "."
    THEN CHOOSE k \in 1..Len(s) : s[k] = "." /\ \A j \in 1..(k - 1) : s[j] # "."
    ELSE 0

\* an unsigned decimal "ddd", "ddd.ddd", "ddd." or ".ddd" (the probe prints no
\* exponent); None for anything else
ParseDecimal(s) ==
    LET p    == FirstDot(s)
        ip   == IF p = 0 THEN s ELSE SubSeq(s, 1, p - 1)
        fp   == IF p = 0 THEN <<>> ELSE SubSeq(s, p + 1, Len(s))
    IN  IF ~AllDigits(ip) \/ ~AllDigits(fp) \/ (ip = <<>> /\ fp = <<>>) THEN None
        ELSE Some(Num(DigitsValue(ip \o fp), Pow10(Len(fp))))

\* str::parse::<f64>(): an optional sign, then "inf", "infinity" or "nan" in any
\* case, or a decimal number. A negative or non-finite value parses: Ok.
ParseF64(s) ==
    LET neg  == s # <<>> /\ Head(s) = "-"
        body == IF s # <<>> /\ Head(s) \in {"+", "-"} THEN Tail(s) ELSE s
        dec  == ParseDecimal(body)
    IN  IF Lower(body) \in {<<"i", "n", "f">>, <<"i", "n", "f", "i", "n", "i", "t", "y">>}
          THEN Some(Inf(IF neg THEN -1 ELSE 1))
        ELSE IF Lower(body) = <<"n", "a", "n">> THEN Some(NaN)
        ELSE IF dec = None THEN None
        ELSE Some(Num(IF neg THEN -(dec[1].n) ELSE dec[1].n, dec[1].d))

\* x / (m as f64), m >= 1
FDivInt(x, m) == IF x.k = "num" THEN Num(x.n, x.d * m) ELSE x

\* (i as f64) * x, i >= 0: 0 * inf is NaN
FMulInt(i, x) ==
    CASE x.k = "num" -> Num(i * x.n, x.d)
      [] x.k = "inf" -> IF i = 0 THEN NaN ELSE x
      [] OTHER -> NaN

\* mutant: the division done on whole seconds
SegmentDurationTruncated(total, n) ==
    IF total.k = "num" THEN Num((total.n \div total.d) \div n, 1) ELSE total

\* total_duration / num_threads as f64
SegmentDuration(total, n) == FDivInt(total, n)

\* mutant: every worker is given the offset of the first segment
StartTimeOfFirst(thread_id, seg_duration) == FMulInt(0, seg_duration)

\* thread_id as f64 * segment_duration
StartTime(thread_id, seg_duration) == FMulInt(thread_id, seg_duration)

\* ------------------------------------------------------------------- merge

\* a directory entry: its file name and whether Path::is_file() holds for it
Entry(name, isfile) == [name |-> name, file |-> isfile]

\* mutant: the filter looks at the extension only
HasPngExtension(e) == Extension(e.name) = Some(PngExt)

\* the filter of the merge: a regular file whose extension is exactly "png"
IsFrame(e) == e.file /\ Extension(e.name) = Some(PngExt)

\* the orders in which fs::read_dir may return the entries of a directory
Listings(entries) ==
    {f \in [1..Cardinality(entries) -> entries] :
        \A a, b \in 1..Cardinality(entries) : a # b => f[a] # f[b]}

RECURSIVE SelectFrames(_)
SelectFrames(listing) ==
    IF listing = <<>> THEN <<>>
    ELSE IF IsFrame(Head(listing)) THEN <<Head(listing)>> \o SelectFrames(Tail(listing))
    ELSE SelectFrames(Tail(listing))

\* the comparator of frames.sort_by: a is placed before b
FrameLess(a, b) == OptionLess(FrameKey(a.name), FrameKey(b.name))

\* e inserted into a sorted sequence behind every element that is not greater
RECURSIVE InsertStable(_, _)
InsertStable(sorted, e) ==
    IF sorted = <<>> THEN <<e>>
    ELSE IF FrameLess(e, Head(sorted)) THEN <<e>> \o sorted
    ELSE <<Head(sorted)>> \o InsertStable(Tail(sorted), e)

\* mutant: the frames are taken in the order of the listing
Unsorted(frames) == frames

\* slice::sort_by is stable: equal keys keep the order of the listing
RECURSIVE SortFrames(_)
SortFrames(frames) ==
    IF frames = <<>> THEN <<>>
    ELSE InsertStable(SortFrames(SubSeq(frames, 1, Len(frames) - 1)), frames[Len(frames)])

\* ------------------------------------------------------------------- state

VARIABLES
    pc,               \* where the main thread is
    exit_code,        \* -1 while the process runs, then its exit status
    output_dir,       \* "output": [exists, files]; a file is [name, src]
    tmp_exists,       \* whether "tmp_segments" exists
    seg_dirs,         \* thread_id -> [exists, entries] of tmp_segments/segment_<id>
    total_duration,   \* the parsed probe output
    num_threads,
    segment_duration,
    next_thread,      \* thread_id of the spawn loop
    wpc,              \* thread_id -> where the worker thread is
    engine,           \* thread_id -> the engine: none, running, exited, reaped
    engine_args,      \* thread_id -> the -ss and -t values the engine was given
    engine_status,    \* thread_id -> the exit status of an exited engine
    drained,          \* thread_id -> how the worker's stderr loop ended, what it read
    chan,             \* the reports sent and not yet received
    received,         \* the reports in the order rx.iter() yielded them
    success_count,
    merge_thread,     \* thread_id of the merge loop
    frame_counter,
    move_failures,    \* how many fs::rename calls failed so far
    output_initial,   \* the files "output" held when the process started
    merge_input,      \* thread_id -> the frames the merge took from its directory, in its order
    pipes             \* thread_id -> the engine's stdout and stderr: what it has still
                      \* to write, and what is written and not read

vars == <<pc, exit_code, output_dir, tmp_exists, seg_dirs, total_duration, num_threads,
          segment_duration, next_thread, wpc, engine, engine_args, engine_status,
          drained, chan, received, success_count, merge_thread,
          frame_counter, move_failures, output_initial, merge_input, pipes>>

Threads == 0..(MaxThreads - 1)

Unset == [k |-> "unset", n |-> 0, d |-> 1]

\* a file of the output directory that no merge of this run put there
Stale(name) == [name |-> name, src |-> [seg |-> -1, name |-> name]]

\* a file the merge moved: segment seg's entry `name`, renamed to VideoName(g)
Merged(g, seg, name) == [name |-> VideoName(g), src |-> [seg |-> seg, name |-> name]]

NoDir == [exists |-> FALSE, entries |-> {}]

EmptyDir == [exists |-> TRUE, entries |-> {}]

\* what an earlier run may have left in "output"
StaleOutput == {Stale(VideoName(1)), Stale(VideoName(3))}

InitialOutputs ==
    { [exists |-> FALSE, files |-> {}],
      [exists |-> TRUE, files |-> {}],
      [exists |-> TRUE, files |-> StaleOutput] }

\* what an earlier, aborted run may have left in "tmp_segments"
LeftoverSegment == [exists |-> TRUE, entries |-> {Entry(SegmentFrameName(1), TRUE)}]

InitialTmp ==
    { [exists |-> FALSE, segs |-> [t \in Threads |-> NoDir]],
      [exists |-> TRUE, segs |-> [t \in Threads |-> NoDir]],
      [exists |-> TRUE, segs |-> [t \in Threads |-> IF t = 0 THEN LeftoverSegment ELSE NoDir]] }

\* the state in which main starts, but for what the engines will write
InitRun ==
    /\ pc = "start"
    /\ exit_code = -1
    /\ output_dir \in InitialOutputs
    /\ output_initial = output_dir.files
    /\ \E t \in InitialTmp : tmp_exists = t.exists /\ seg_dirs = t.segs
    /\ total_duration = Unset
    /\ num_threads = 0
    /\ segment_duration = Unset
    /\ next_thread = 0
    /\ wpc = [t \in Threads |-> "unspawned"]
    /\ engine = [t \in Threads |-> "none"]
    /\ engine_args = [t \in Threads |-> <<>>]
    /\ engine_status = [t \in Threads |-> -1]
    /\ drained = [t \in Threads |-> "no"]
    /\ chan = <<>>
    /\ received = <<>>
    /\ success_count = 0
    /\ merge_thread = 0
    /\ frame_counter = 0
    /\ move_failures = 0
    /\ merge_input = [t \in Threads |-> <<>>]

\* an engine that writes nothing to its pipes
Quiet == [out_left |-> 0, out_buf |-> 0, err_left |-> 0, err_buf |-> 0]

Init == InitRun /\ pipes = [t \in Threads |-> Quiet]

\* ------------------------------------------------------- main: preparation

\* mutant: every exit is the return of main
ExitZero(code) == pc' = "exited" /\ exit_code' = 0

\* std::process::exit(code), and the return of main (code 0)
Exit(code) == pc' = "exited" /\ exit_code' = code

Platforms == {"macos", "windows", "other"}

Assets == {"Video", "Overlay", "FFmpeg"}

\* current_exe, the project root and set_current_dir; any failure exits 1
ResolveRoot ==
    /\ pc = "start"
    /\ \E ok \in BOOLEAN :
        IF ok THEN pc' = "platform" /\ UNCHANGED exit_code ELSE Exit(1)
    /\ UNCHANGED <<output_dir, tmp_exists, seg_dirs, total_duration, num_threads,
                   segment_duration, next_thread, wpc, engine, engine_args,
                   engine_status, drained, chan, received, success_count,
                   merge_thread, frame_counter, move_failures, output_initial,
                   merge_input, pipes>>

\* the engine path by target_os; any other platform exits 1
SelectEngine ==
    /\ pc = "platform"
    /\ \E os \in Platforms :
        IF os \in {"macos", "windows"}
        THEN pc' = "validate" /\ UNCHANGED exit_code
        ELSE Exit(1)
    /\ UNCHANGED <<output_dir, tmp_exists, seg_dirs, total_duration, num_threads,
                   segment_duration, next_thread, wpc, engine, engine_args,
                   engine_status, drained, chan, received, success_count,
                   merge_thread, frame_counter, move_failures, output_initial,
                   merge_input, pipes>>

\* every asset must exist: the first missing one exits 1
ValidateInputs ==
    /\ pc = "validate"
    /\ \E present \in SUBSET Assets :
        IF present = Assets THEN pc' = "mkoutput" /\ UNCHANGED exit_code ELSE Exit(1)
    /\ UNCHANGED <<output_dir, tmp_exists, seg_dirs, total_duration, num_threads,
                   segment_duration, next_thread, wpc, engine, engine_args,
                   engine_status, drained, chan, received, success_count,
                   merge_thread, frame_counter, move_failures, output_initial,
                   merge_input, pipes>>

\* "output" is created when missing and otherwise kept as it is, files included
CreateOutputDir ==
    /\ pc = "mkoutput"
    /\ IF ~output_dir.exists
       THEN \E ok \in BOOLEAN :
              IF ok
              THEN /\ output_dir' = [exists |-> TRUE, files |-> {}]
                   /\ pc' = "mktmp"
                   /\ UNCHANGED exit_code
              ELSE Exit(1) /\ UNCHANGED output_dir
       ELSE pc' = "mktmp" /\ UNCHANGED <<exit_code, output_dir>>
    /\ UNCHANGED <<tmp_exists, seg_dirs, total_duration, num_threads,
                   segment_duration, next_thread, wpc, engine, engine_args,
                   engine_status, drained, chan, received, success_count,
                   merge_thread, frame_counter, move_failures, output_initial,
                   merge_input, pipes>>

\* mutant: an existing "tmp_segments" is kept as it is, like "output"
CreateTmpDirKeep ==
    /\ pc = "mktmp"
    /\ \E created \in BOOLEAN :
        IF tmp_exists
        THEN pc' = "probe" /\ UNCHANGED <<exit_code, tmp_exists, seg_dirs>>
        ELSE IF ~created
        THEN Exit(1) /\ UNCHANGED <<tmp_exists, seg_dirs>>
        ELSE /\ pc' = "probe"
             /\ UNCHANGED exit_code
             /\ tmp_exists' = TRUE
             /\ seg_dirs' = [t \in Threads |-> NoDir]
    /\ UNCHANGED <<output_dir, total_duration, num_threads,
                   segment_duration, next_thread, wpc, engine, engine_args,
                   engine_status, drained, chan, received, success_count,
                   merge_thread, frame_counter, move_failures, output_initial,
                   merge_input, pipes>>

\* "tmp_segments" is removed with all it holds when it exists, then created
CreateTmpDir ==
    /\ pc = "mktmp"
    /\ \E removed, created \in BOOLEAN :
        IF tmp_exists /\ ~removed
        THEN Exit(1) /\ UNCHANGED <<tmp_exists, seg_dirs>>
        ELSE IF ~created
        THEN /\ Exit(1)
             /\ tmp_exists' = FALSE
             /\ seg_dirs' = [t \in Threads |-> NoDir]
        ELSE /\ pc' = "probe"
             /\ UNCHANGED exit_code
             /\ tmp_exists' = TRUE
             /\ seg_dirs' = [t \in Threads |-> NoDir]
    /\ UNCHANGED <<output_dir, total_duration, num_threads,
                   segment_duration, next_thread, wpc, engine, engine_args,
                   engine_status, drained, chan, received, success_count,
                   merge_thread, frame_counter, move_failures, output_initial,
                   merge_input, pipes>>

\* ------------------------------------------------------------ main: probe

Text10 == <<"1", "0", ".", "0", "0", "0", "0", "0", "0", "\n">>

TextNA == <<"N", "/", "A", "\n">>

\* what ffprobe prints in the runs of Spec
ProbeTexts == {Text10, TextNA}

\* ffprobe: it cannot be run, it exits non-zero, or its stdout is trimmed and
\* parsed as f64; only a parse error exits 1
Probe(texts) ==
    /\ pc = "probe"
    /\ \/ \E failure \in {"spawn", "status"} :
            Exit(1) /\ UNCHANGED total_duration
       \/ \E stdout \in texts :
            LET parsed == ParseF64(Trim(stdout))
            IN  IF parsed = None
                THEN Exit(1) /\ UNCHANGED total_duration
                ELSE /\ total_duration' = parsed[1]
                     /\ pc' = "plan"
                     /\ UNCHANGED exit_code
    /\ UNCHANGED <<output_dir, tmp_exists, seg_dirs, num_threads,
                   segment_duration, next_thread, wpc, engine, engine_args,
                   engine_status, drained, chan, received, success_count,
                   merge_thread, frame_counter, move_failures, output_initial,
                   merge_input, pipes>>

\* ------------------------------------------------------------- main: plan

Max(a, b) == IF a >= b THEN a ELSE b

\* available_parallelism(): Ok(n) gives n, Err gives 1
get_available_threads(reported) == IF reported = None THEN 1 ELSE reported[1]

\* what available_parallelism() may return: an error, or a non-zero count
Parallelism == {None} \cup {Some(n) : n \in 1..MaxThreads}

Plan ==
    /\ pc = "plan"
    /\ \E reported \in Parallelism :
        LET n == Max(get_available_threads(reported), 1)
        IN  /\ num_threads' = n
            /\ segment_duration' = SegmentDuration(total_duration, n)
    /\ next_thread' = 0
    /\ pc' = "spawn"
    /\ UNCHANGED <<exit_code, output_dir, tmp_exists, seg_dirs, total_duration,
                   wpc, engine, engine_args,
                   engine_status, drained, chan, received, success_count,
                   merge_thread, frame_counter, move_failures, output_initial,
                   merge_input, pipes>>

\* one iteration of the spawn loop: thread::spawn of the worker of next_thread
SpawnWorker ==
    /\ pc = "spawn"
    /\ next_thread < num_threads
    /\ wpc' = [wpc EXCEPT ![next_thread] = "mkdir"]
    /\ next_thread' = next_thread + 1
    /\ UNCHANGED <<pc, exit_code, output_dir, tmp_exists, seg_dirs, total_duration,
                   num_threads, segment_duration, engine, engine_args,
                   engine_status, drained, chan, received, success_count,
                   merge_thread, frame_counter, move_failures, output_initial,
                   merge_input, pipes>>

\* drop(tx) behind the loop: main keeps no sender
DropTx ==
    /\ pc = "spawn"
    /\ next_thread = num_threads
    /\ pc' = "collect"
    /\ UNCHANGED <<exit_code, output_dir, tmp_exists, seg_dirs, total_duration,
                   num_threads, segment_duration, next_thread, wpc, engine, engine_args,
                   engine_status, drained, chan, received, success_count,
                   merge_thread, frame_counter, move_failures, output_initial,
                   merge_input, pipes>>

\* ----------------------------------------------------------------- workers

\* tx.send((thread_id, success)) of a worker
Send(thread_id, success) == chan' = Append(chan, <<thread_id, success>>)

\* the segment directory is in the way: another process made it, with a file in
\* it, after "tmp_segments" was recreated and before the worker's create_dir
SegmentDirAppears(t) ==
    /\ wpc[t] = "mkdir"
    /\ exit_code = -1
    /\ tmp_exists /\ ~seg_dirs[t].exists
    /\ seg_dirs' = [seg_dirs EXCEPT ![t] = LeftoverSegment]
    /\ UNCHANGED <<pc, exit_code, output_dir, tmp_exists, total_duration, num_threads,
                   segment_duration, next_thread, wpc, engine, engine_args, engine_status,
                   drained, chan, received, success_count, merge_thread,
                   frame_counter, move_failures, output_initial, merge_input, pipes>>

\* mutant: create_dir_all, for which an existing directory is no error
WorkerCreateDirAll(t) ==
    /\ wpc[t] = "mkdir"
    /\ exit_code = -1
    /\ \E ok \in BOOLEAN :
        IF tmp_exists /\ (seg_dirs[t].exists \/ ok)
        THEN /\ seg_dirs' = [seg_dirs EXCEPT ![t] = IF @.exists THEN @ ELSE EmptyDir]
             /\ wpc' = [wpc EXCEPT ![t] = "spawn"]
             /\ UNCHANGED chan
        ELSE /\ Send(t, FALSE)
             /\ wpc' = [wpc EXCEPT ![t] = "done"]
             /\ UNCHANGED seg_dirs
    /\ UNCHANGED <<pc, exit_code, output_dir, tmp_exists, total_duration, num_threads,
                   segment_duration, next_thread, engine, engine_args, engine_status,
                   drained, received, success_count, merge_thread,
                   frame_counter, move_failures, output_initial, merge_input, pipes>>

\* fs::create_dir(&segment_dir): fails when the directory exists or its parent
\* does not, and may fail otherwise; a failure is reported and ends the worker
WorkerCreateDir(t) ==
    /\ wpc[t] = "mkdir"
    /\ exit_code = -1
    /\ \E ok \in BOOLEAN :
        IF ok /\ tmp_exists /\ ~seg_dirs[t].exists
        THEN /\ seg_dirs' = [seg_dirs EXCEPT ![t] = EmptyDir]
             /\ wpc' = [wpc EXCEPT ![t] = "spawn"]
             /\ UNCHANGED chan
        ELSE /\ Send(t, FALSE)
             /\ wpc' = [wpc EXCEPT ![t] = "done"]
             /\ UNCHANGED seg_dirs
    /\ UNCHANGED <<pc, exit_code, output_dir, tmp_exists, total_duration, num_threads,
                   segment_duration, next_thread, engine, engine_args, engine_status,
                   drained, received, success_count, merge_thread,
                   frame_counter, move_failures, output_initial, merge_input, pipes>>

\* Command::new(ffmpeg).args(["-ss", start_time, ..., "-t", segment_duration, ...]).spawn()
WorkerSpawn(t) ==
    /\ wpc[t] = "spawn"
    /\ exit_code = -1
    /\ \E ok \in BOOLEAN :
        IF ok
        THEN /\ engine' = [engine EXCEPT ![t] = "running"]
             /\ engine_args' = [engine_args EXCEPT ![t] =
                    [ss |-> StartTime(t, segment_duration), len |-> segment_duration]]
             /\ wpc' = [wpc EXCEPT ![t] = "drain"]
             /\ UNCHANGED chan
        ELSE /\ Send(t, FALSE)
             /\ wpc' = [wpc EXCEPT ![t] = "done"]
             /\ UNCHANGED <<engine, engine_args>>
    /\ UNCHANGED <<pc, exit_code, output_dir, tmp_exists, seg_dirs, total_duration,
                   num_threads, segment_duration, next_thread, engine_status,
                   drained, received, success_count, merge_thread,
                   frame_counter, move_failures, output_initial, merge_input, pipes>>

\* the frames "%05d.png" the engine writes for k frames
EngineFrames(k) == {Entry(SegmentFrameName(j), TRUE) : j \in 1..k}

\* what a segment directory may hold when its engine ends, in the runs of Spec
DirContents == {EngineFrames(k) : k \in 0..MaxFrames}

\* the segment directory of an engine that ends with the files `entries`
EngineOutput(dir, entries) ==
    IF dir.exists THEN [exists |-> TRUE, entries |-> entries] ELSE dir

\* an engine nobody waits for any more (cmd.wait() failed) ends on its own;
\* the run is aborted by then and reads no segment directory
EngineExit(t) ==
    /\ engine[t] = "running"
    /\ wpc[t] = "done"
    /\ \E status \in {0, 1} :
        engine_status' = [engine_status EXCEPT ![t] = status]
    /\ engine' = [engine EXCEPT ![t] = "exited"]
    /\ UNCHANGED <<pc, exit_code, output_dir, tmp_exists, seg_dirs, total_duration,
                   num_threads, segment_duration, next_thread, wpc, engine_args,
                   drained, chan, received, success_count, merge_thread,
                   frame_counter, move_failures, output_initial, merge_input, pipes>>

\* the loop over reader.lines(): it ends at the end of the stream, when the
\* engine has written its last line and closes stderr, or at the first read
\* error (break); a line holding "error" or "fail" is printed at once, which
\* changes nothing else. How the loop ended is kept in no variable of the
\* program: `drained` records it until cmd.wait() returns.
WorkerDrain(t) ==
    /\ wpc[t] = "drain"
    /\ exit_code = -1
    /\ \E marked \in BOOLEAN :
        \/ drained' = [drained EXCEPT ![t] = IF marked THEN "eof_marked" ELSE "eof"]
        \/ drained' = [drained EXCEPT ![t] = IF marked THEN "error_marked" ELSE "error"]
    /\ wpc' = [wpc EXCEPT ![t] = "wait"]
    /\ UNCHANGED <<pc, exit_code, output_dir, tmp_exists, seg_dirs, total_duration,
                   num_threads, segment_duration, next_thread, engine, engine_args,
                   engine_status, chan, received, success_count,
                   merge_thread, frame_counter, move_failures, output_initial,
                   merge_input, pipes>>

\* mutant: any status the wait returned counts as success
AnyStatus(status) == TRUE

\* status.success() of the status cmd.wait() returned
StatusSuccess(status) == status = 0

\* mutant: a failed wait is reported like an exit with status 0
WaitErrorIgnored(wait_ok, status) == ~wait_ok \/ status = 0

\* what the worker sends for the result of cmd.wait(): Err(_) sends false,
\* Ok(status) sends status.success()
WorkerResult(wait_ok, status) == wait_ok /\ StatusSuccess(status)

\* cmd.wait(), the report and the return of the closure, which drops the
\* worker's clone of tx. Ok(status): the engine ends with `status`, leaving
\* `entries` in its directory. Err: the engine is left as it is.
WorkerWait(t, contents) ==
    /\ wpc[t] = "wait"
    /\ exit_code = -1
    /\ \/ /\ \E status \in {0, 1}, entries \in contents :
              /\ engine_status' = [engine_status EXCEPT ![t] = status]
              /\ seg_dirs' = [seg_dirs EXCEPT ![t] = EngineOutput(@, entries)]
              /\ Send(t, WorkerResult(TRUE, status))
          /\ engine' = [engine EXCEPT ![t] = "reaped"]
       \/ /\ Send(t, WorkerResult(FALSE, engine_status[t]))
          /\ UNCHANGED <<engine, engine_status, seg_dirs>>
    /\ wpc' = [wpc EXCEPT ![t] = "done"]
    /\ drained' = [drained EXCEPT ![t] = "no"]
    /\ UNCHANGED <<pc, exit_code, output_dir, tmp_exists, total_duration,
                   num_threads, segment_duration, next_thread, engine_args,
                   received, success_count,
                   merge_thread, frame_counter, move_failures, output_initial,
                   merge_input, pipes>>

\* ------------------------------------------------- workers: the two pipes
\* The engine is spawned with stdout and stderr piped. The steps below are the
\* loop over reader.lines() and cmd.wait() once more, line by line, together
\* with the engine's writes: a write to a full pipe waits until the reader has
\* taken something out of it.

\* what an engine may have to write: much to stderr, or much to stdout
EngineOutputs ==
    { [out_left |-> 0, out_buf |-> 0, err_left |-> PipeCapacity + 1, err_buf |-> 0],
      [out_left |-> PipeCapacity + 1, out_buf |-> 0, err_left |-> 1, err_buf |-> 0] }

PipeInit == InitRun /\ pipes \in [Threads -> EngineOutputs]

\* the worker holds the read end of stderr from spawn() until the loop over
\* reader.lines() is left, which drops the reader
StderrOpen(t) == wpc[t] = "drain" /\ exit_code = -1

\* the read end of stdout stays in cmd.stdout until the closure returns: it is
\* never taken and never read
StdoutOpen(t) == wpc[t] \in {"drain", "wait"} /\ exit_code = -1

\* the engine after a write to a pipe nobody holds the read end of: the write
\* fails at once, and the engine goes on with the rest or is ended by SIGPIPE
AfterBrokenPipe(p, rest) ==
    {rest, [out_left |-> 0, out_buf |-> p.out_buf, err_left |-> 0, err_buf |-> p.err_buf]}

\* one write of the engine, to stdout or to stderr, when the pipe has room
EngineWrite(t) ==
    /\ engine[t] = "running"
    /\ LET p == pipes[t]
       IN  \/ /\ p.out_left > 0
              /\ IF StdoutOpen(t)
                 THEN /\ p.out_buf < PipeCapacity
                      /\ pipes' = [pipes EXCEPT ![t].out_left = @ - 1, ![t].out_buf = @ + 1]
                 ELSE \E q \in AfterBrokenPipe(p, [p EXCEPT !.out_left = @ - 1]) :
                          pipes' = [pipes EXCEPT ![t] = q]
           \/ /\ p.err_left > 0
              /\ IF StderrOpen(t)
                 THEN /\ p.err_buf < PipeCapacity
                      /\ pipes' = [pipes EXCEPT ![t].err_left = @ - 1, ![t].err_buf = @ + 1]
                 ELSE \E q \in AfterBrokenPipe(p, [p EXCEPT !.err_left = @ - 1]) :
                          pipes' = [pipes EXCEPT ![t] = q]
    /\ UNCHANGED <<pc, exit_code, output_dir, tmp_exists, seg_dirs, total_duration,
                   num_threads, segment_duration, next_thread, wpc, engine, engine_args,
                   engine_status, drained, chan, received, success_count, merge_thread,
                   frame_counter, move_failures, output_initial, merge_input>>

\* the engine exits once all its writes are accepted, closing its pipe ends
EngineFinish(t) ==
    /\ engine[t] = "running"
    /\ pipes[t].out_left = 0 /\ pipes[t].err_left = 0
    /\ \E status \in {0, 1} :
        engine_status' = [engine_status EXCEPT ![t] = status]
    /\ engine' = [engine EXCEPT ![t] = "exited"]
    /\ UNCHANGED <<pc, exit_code, output_dir, tmp_exists, seg_dirs, total_duration,
                   num_threads, segment_duration, next_thread, wpc, engine_args,
                   drained, chan, received, success_count, merge_thread,
                   frame_counter, move_failures, output_initial, merge_input, pipes>>

\* reader.lines() yields Ok(line): a line is taken out of the stderr pipe
ReadLine(t) ==
    /\ wpc[t] = "drain"
    /\ exit_code = -1
    /\ pipes[t].err_buf > 0
    /\ pipes' = [pipes EXCEPT ![t].err_buf = @ - 1]
    /\ UNCHANGED <<pc, exit_code, output_dir, tmp_exists, seg_dirs, total_duration,
                   num_threads, segment_duration, next_thread, wpc, engine, engine_args,
                   engine_status, drained, chan, received, success_count, merge_thread,
                   frame_counter, move_failures, output_initial, merge_input>>

\* reader.lines() ends: the pipe is empty and the engine has closed its end
ReadEof(t) ==
    /\ wpc[t] = "drain"
    /\ exit_code = -1
    /\ pipes[t].err_buf = 0
    /\ engine[t] = "exited"
    /\ wpc' = [wpc EXCEPT ![t] = "wait"]
    /\ drained' = [drained EXCEPT ![t] = "eof"]
    /\ UNCHANGED <<pc, exit_code, output_dir, tmp_exists, seg_dirs, total_duration,
                   num_threads, segment_duration, next_thread, engine, engine_args,
                   engine_status, chan, received, success_count, merge_thread,
                   frame_counter, move_failures, output_initial, merge_input, pipes>>

\* reader.lines() yields Err: the warning is printed and the loop is left
ReadError(t) ==
    /\ wpc[t] = "drain"
    /\ exit_code = -1
    /\ wpc' = [wpc EXCEPT ![t] = "wait"]
    /\ drained' = [drained EXCEPT ![t] = "error"]
    /\ UNCHANGED <<pc, exit_code, output_dir, tmp_exists, seg_dirs, total_duration,
                   num_threads, segment_duration, next_thread, engine, engine_args,
                   engine_status, chan, received, success_count, merge_thread,
                   frame_counter, move_failures, output_initial, merge_input, pipes>>

\* cmd.wait() returns Ok(status) once the engine has exited; the report is sent
\* and the closure returns
WaitExited(t, contents) ==
    /\ wpc[t] = "wait"
    /\ exit_code = -1
    /\ engine[t] = "exited"
    /\ \E entries \in contents :
        seg_dirs' = [seg_dirs EXCEPT ![t] = EngineOutput(@, entries)]
    /\ Send(t, WorkerResult(TRUE, engine_status[t]))
    /\ engine' = [engine EXCEPT ![t] = "reaped"]
    /\ wpc' = [wpc EXCEPT ![t] = "done"]
    /\ drained' = [drained EXCEPT ![t] = "no"]
    /\ UNCHANGED <<pc, exit_code, output_dir, tmp_exists, total_duration,
                   num_threads, segment_duration, next_thread, engine_args, engine_status,
                   received, success_count, merge_thread,
                   frame_counter, move_failures, output_initial, merge_input, pipes>>

\* cmd.wait() returns Err: false is sent and the closure returns
WaitError(t) ==
    /\ wpc[t] = "wait"
    /\ exit_code = -1
    /\ Send(t, WorkerResult(FALSE, engine_status[t]))
    /\ wpc' = [wpc EXCEPT ![t] = "done"]
    /\ drained' = [drained EXCEPT ![t] = "no"]
    /\ UNCHANGED <<pc, exit_code, output_dir, tmp_exists, seg_dirs, total_duration,
                   num_threads, segment_duration, next_thread, engine, engine_args,
                   engine_status, received, success_count, merge_thread,
                   frame_counter, move_failures, output_initial, merge_input, pipes>>

\* ----------------------------------------------------------- main: fan-in

\* rx.iter() yields the next report; the loop body counts the successes
Receive ==
    /\ pc = "collect"
    /\ chan # <<>>
    /\ received' = Append(received, Head(chan))
    /\ chan' = Tail(chan)
    /\ success_count' = IF Head(chan)[2] THEN success_count + 1 ELSE success_count
    /\ UNCHANGED <<pc, exit_code, output_dir, tmp_exists, seg_dirs, total_duration,
                   num_threads, segment_duration, next_thread, wpc, engine, engine_args,
                   engine_status, drained, merge_thread, frame_counter,
                   move_failures, output_initial, merge_input, pipes>>

\* mutant: the loop ends as soon as the channel is empty (try_iter)
ChannelEmpty == chan = <<>>

\* rx.iter() ends: the channel is empty and every sender is dropped, main's by
\* drop(tx), a worker's when its closure has returned
Disconnected ==
    /\ chan = <<>>
    /\ \A t \in Threads : wpc[t] \in {"unspawned", "done"}

\* mutant: one success is enough to go on to the merge
SomeSucceeded == success_count > 0

\* the test behind the loop: success_count != num_threads exits 1
AllSucceeded == success_count = num_threads

CollectEnd ==
    /\ pc = "collect"
    /\ Disconnected
    /\ IF AllSucceeded
       THEN /\ pc' = "merge"
            /\ frame_counter' = 1
            /\ merge_thread' = 0
            /\ UNCHANGED exit_code
       ELSE /\ Exit(1)
            /\ UNCHANGED <<frame_counter, merge_thread>>
    /\ UNCHANGED <<output_dir, tmp_exists, seg_dirs, total_duration,
                   num_threads, segment_duration, next_thread, wpc, engine, engine_args,
                   engine_status, drained, chan, received, success_count,
                   move_failures, output_initial, merge_input, pipes>>

\* ------------------------------------------------------------ main: merge

\* mutant: the segments are merged in the order their reports arrived
MergeSegmentByArrival(iteration) == received[iteration + 1][1]

\* the segment the merge loop reads in its iteration
MergeSegmentOf(iteration) == iteration

\* the number format!("video{:05}.png", frame_counter) gets for the frame at
\* position p of the sorted frames, frame_counter being `counter` before them
GlobalNumber(counter, p) == counter + (p - 1)

\* frame_counter behind a segment of n frames: one step per frame, moved or not
CounterAfter(counter, n) == counter + n

\* mutant: the loop over the frames ends at the first rename that fails
MoveFramesUntilFailure(files, seg, frames, counter, moved) ==
    LET upto == {p \in moved : \A q \in 1..p : q \in moved}
        new == {Merged(GlobalNumber(counter, p), seg, frames[p].name) : p \in upto}
    IN  {f \in files : \A g \in new : g.name # f.name} \cup new

\* fs::rename(&frame, &dest) of the frames at the positions `moved`: a file of
\* that name in "output" is replaced
MoveFrames(files, seg, frames, counter, moved) ==
    LET new == {Merged(GlobalNumber(counter, p), seg, frames[p].name) : p \in moved}
    IN  {f \in files : \A g \in new : g.name # f.name} \cup new

\* one iteration of the merge loop: the directory is listed in some order,
\* filtered and sorted, and each frame is renamed into "output"; a failed
\* listing and an empty selection go on with the next segment, a failed rename
\* with the next frame
MergeSegment ==
    /\ pc = "merge"
    /\ merge_thread < num_threads
    /\ LET seg == MergeSegmentOf(merge_thread)
           dir == seg_dirs[seg]
       IN  \/ /\ UNCHANGED <<output_dir, seg_dirs, frame_counter, move_failures,
                             merge_input>>
           \/ /\ dir.exists
              /\ \E listing \in Listings(dir.entries) :
                  LET frames == SortFrames(SelectFrames(listing))
                  IN  \E failed \in SUBSET (1..Len(frames)) :
                        /\ move_failures + Cardinality(failed) <= MaxMoveFailures
                        /\ move_failures' = move_failures + Cardinality(failed)
                        /\ output_dir' = [output_dir EXCEPT !.files =
                              MoveFrames(@, seg, frames, frame_counter,
                                         (1..Len(frames)) \ failed)]
                        /\ seg_dirs' = [seg_dirs EXCEPT ![seg].entries =
                              @ \ {frames[p] : p \in (1..Len(frames)) \ failed}]
                        /\ frame_counter' = CounterAfter(frame_counter, Len(frames))
                        /\ merge_input' = [merge_input EXCEPT ![seg] = frames]
    /\ merge_thread' = merge_thread + 1
    /\ UNCHANGED <<pc, exit_code, tmp_exists, total_duration,
                   num_threads, segment_duration, next_thread, wpc, engine, engine_args,
                   engine_status, drained, chan, received, success_count,
                   output_initial, pipes>>

\* mutant: main returns behind the merge loop, without the cleanup
ReturnAfterMerge ==
    /\ pc = "merge"
    /\ merge_thread = num_threads
    /\ Exit(0)
    /\ UNCHANGED <<output_dir, tmp_exists, seg_dirs, total_duration,
                   num_threads, segment_duration, next_thread, wpc, engine, engine_args,
                   engine_status, drained, chan, received, success_count,
                   merge_thread, frame_counter, move_failures, output_initial,
                   merge_input, pipes>>

\* the end of the merge loop
MergeEnd ==
    /\ pc = "merge"
    /\ merge_thread = num_threads
    /\ pc' = "cleanup"
    /\ UNCHANGED <<exit_code, output_dir, tmp_exists, seg_dirs, total_duration,
                   num_threads, segment_duration, next_thread, wpc, engine, engine_args,
                   engine_status, drained, chan, received, success_count,
                   merge_thread, frame_counter, move_failures, output_initial,
                   merge_input, pipes>>

\* mutant: a failed removal ends the process with status 1
CleanupFatal ==
    /\ pc = "cleanup"
    /\ \E removed \in BOOLEAN :
        IF removed
        THEN tmp_exists' = FALSE /\ seg_dirs' = [t \in Threads |-> NoDir] /\ Exit(0)
        ELSE UNCHANGED <<tmp_exists, seg_dirs>> /\ Exit(1)
    /\ UNCHANGED <<output_dir, total_duration,
                   num_threads, segment_duration, next_thread, wpc, engine, engine_args,
                   engine_status, drained, chan, received, success_count,
                   merge_thread, frame_counter, move_failures, output_initial,
                   merge_input, pipes>>

\* fs::remove_dir_all(segments_dir): a failure is printed; main returns
Cleanup ==
    /\ pc = "cleanup"
    /\ \E removed \in BOOLEAN :
        IF removed
        THEN tmp_exists' = FALSE /\ seg_dirs' = [t \in Threads |-> NoDir]
        ELSE UNCHANGED <<tmp_exists, seg_dirs>>
    /\ Exit(0)
    /\ UNCHANGED <<output_dir, total_duration,
                   num_threads, segment_duration, next_thread, wpc, engine, engine_args,
                   engine_status, drained, chan, received, success_count,
                   merge_thread, frame_counter, move_failures, output_initial,
                   merge_input, pipes>>

\* ------------------------------------------------------------------- specs

Next ==
    \/ ResolveRoot
    \/ SelectEngine
    \/ ValidateInputs
    \/ CreateOutputDir
    \/ CreateTmpDir
    \/ Probe(ProbeTexts)
    \/ Plan
    \/ SpawnWorker
    \/ DropTx
    \/ \E t \in Threads : SegmentDirAppears(t)
    \/ \E t \in Threads : WorkerCreateDir(t)
    \/ \E t \in Threads : WorkerSpawn(t)
    \/ \E t \in Threads : WorkerDrain(t)
    \/ \E t \in Threads : WorkerWait(t, DirContents)
    \/ \E t \in Threads : EngineExit(t)
    \/ Receive
    \/ CollectEnd
    \/ MergeSegment
    \/ MergeEnd
    \/ Cleanup

Spec == Init /\ [][Next]_vars

\* the planner alone: the same run up to the engines' start, for more outputs
\* of ffprobe than Spec tries

PlanTexts ==
    { Text10,
      <<"7", ".", "5", "\n">>,
      <<"0", ".", "0", "0", "1", "\n">>,
      <<" ", "3", "\n">>,
      <<"+", "1", ".", "\n">>,
      <<"0", ".", "0", "\n">>,
      <<"-", "2", ".", "5", "\n">>,
      <<"n", "a", "n", "\n">>,
      <<"i", "n", "f", "\n">>,
      TextNA,
      <<"\n">> }

PlanNext ==
    \/ ResolveRoot
    \/ SelectEngine
    \/ ValidateInputs
    \/ CreateOutputDir
    \/ CreateTmpDir
    \/ Probe(PlanTexts)
    \/ Plan
    \/ SpawnWorker
    \/ DropTx
    \/ \E t \in Threads : WorkerCreateDir(t)
    \/ \E t \in Threads : WorkerSpawn(t)

PlanSpec == Init /\ [][PlanNext]_vars

\* the merge alone meets more than the engine's frames: the same run with
\* segment directories that also hold what another program put there

\* entries the filter drops: a directory named like a frame, a file of another
\* extension, and a file whose name has no extension (only a leading '.')
Strays ==
    { Entry(SegmentFrameName(2), FALSE),
      Entry(<<"n", "o", "t", "e", "s", ".", "t", "x", "t">>, TRUE),
      Entry(<<".", "p", "n", "g">>, TRUE) }

\* PNG files whose name up to the first '.' is no number
Unsortable ==
    { Entry(<<"a", ".", "p", "n", "g">>, TRUE),
      Entry(<<"b", ".", "p", "n", "g">>, TRUE) }

StrayContents ==
    { EngineFrames(0), Strays, EngineFrames(1) \cup Strays, Unsortable }

StrayNext ==
    \/ ResolveRoot
    \/ SelectEngine
    \/ ValidateInputs
    \/ CreateOutputDir
    \/ CreateTmpDir
    \/ Probe(ProbeTexts)
    \/ Plan
    \/ SpawnWorker
    \/ DropTx
    \/ \E t \in Threads : WorkerCreateDir(t)
    \/ \E t \in Threads : WorkerSpawn(t)
    \/ \E t \in Threads : WorkerDrain(t)
    \/ \E t \in Threads : WorkerWait(t, StrayContents)
    \/ \E t \in Threads : EngineExit(t)
    \/ Receive
    \/ CollectEnd
    \/ MergeSegment
    \/ MergeEnd
    \/ Cleanup

StraySpec == Init /\ [][StrayNext]_vars

\* the run with the engines' pipes: every thread and every engine that can take
\* a step is scheduled at some time (weak fairness); a failed read and a failed
\* wait may happen but need not

PipeContents == {EngineFrames(1)}

MainStep ==
    \/ ResolveRoot
    \/ SelectEngine
    \/ ValidateInputs
    \/ CreateOutputDir
    \/ CreateTmpDir
    \/ Probe(ProbeTexts)
    \/ Plan
    \/ SpawnWorker
    \/ DropTx
    \/ Receive
    \/ CollectEnd
    \/ MergeSegment
    \/ MergeEnd
    \/ Cleanup

WorkerStep(t) ==
    \/ WorkerCreateDir(t)
    \/ WorkerSpawn(t)
    \/ ReadLine(t)
    \/ ReadEof(t)
    \/ WaitExited(t, PipeContents)

EngineStep(t) == EngineWrite(t) \/ EngineFinish(t)

PipeNext ==
    \/ MainStep
    \/ \E t \in Threads : WorkerStep(t)
    \/ \E t \in Threads : ReadError(t)
    \/ \E t \in Threads : WaitError(t)
    \/ \E t \in Threads : EngineStep(t)

PipeFairness ==
    /\ WF_vars(MainStep)
    /\ \A t \in Threads : WF_vars(WorkerStep(t))
    /\ \A t \in Threads : WF_vars(EngineStep(t))

PipeSpec == PipeInit /\ [][PipeNext]_vars /\ PipeFairness

\* ------------------------------------------------------------------ claims

\* exact arithmetic on finite durations, for the statements about the plan
RatAdd(x, y) == Num(x.n * y.d + y.n * x.d, x.d * y.d)

RatLess(x, y) == x.n * y.d < y.n * x.d

RatMax(x, y) == IF RatLess(x, y) THEN y ELSE x

RatMin(x, y) == IF RatLess(x, y) THEN x ELSE y

Zero == Num(0, 1)

\* the threads whose engine has been started
Started == {t \in Threads : engine_args[t] # <<>>}

SegStart(t) == engine_args[t].ss

SegEnd(t) == RatAdd(engine_args[t].ss, engine_args[t].len)

\* C10: for a finite duration D and the worker count N >= 1, the plan has
\* exactly N segments (threads 0..N-1 are started, no other), segment i is
\* given start i * (D/N) and length D/N, so that segment 0 starts at 0, the
\* end of segment i is the start of segment i+1, segment N-1 ends at D, and no
\* instant lies in two segments.
C10_PlanIsPartition ==
    (pc \notin {"start", "platform", "validate", "mkoutput", "mktmp", "probe", "plan"}
        /\ num_threads > 0 /\ total_duration.k = "num")
    =>  /\ num_threads >= 1
        /\ \A t \in Threads : wpc[t] # "unspawned" => t < num_threads
        /\ pc # "spawn" => \A t \in 0..(num_threads - 1) : wpc[t] # "unspawned"
        /\ \A t \in Started :
            /\ engine_args[t].len.n * num_threads * total_duration.d
                  = total_duration.n * engine_args[t].len.d
            /\ SegStart(t).n * num_threads * total_duration.d
                  = t * total_duration.n * SegStart(t).d
            /\ t = 0 => SegStart(t) = Zero
            /\ t = num_threads - 1 => SegEnd(t) = total_duration
            /\ (t + 1) \in Started => SegEnd(t) = SegStart(t + 1)
        /\ \A t, u \in Started :
            t # u => ~RatLess(RatMax(SegStart(t), SegStart(u)), RatMin(SegEnd(t), SegEnd(u)))

\* C10 witness: two segments of a duration that is no whole number of seconds
\* (7.5 s) have both been given to their engines
C10_Witness ==
    /\ num_threads = 2
    /\ total_duration = Num(15, 2)
    /\ Started = {0, 1}
    /\ SegStart(1) = Num(15, 4)

\* every report sent so far, received or not
Reports == received \o chan

ReportsOf(t) == {k \in 1..Len(Reports) : Reports[k][1] = t}

FailureReported == \E k \in 1..Len(Reports) : ~Reports[k][2]

\* the run has left Processing: to the merge, or by an exit behind the plan
LeftProcessing == pc \in {"merge", "cleanup"} \/ (pc = "exited" /\ num_threads > 0)

\* the PNG frames a segment directory holds
FramesIn(t) == {e \in seg_dirs[t].entries : IsFrame(e)}

\* the files of "output" the merge of this run moved there from segment t
MergedFrom(t) == {f \in output_dir.files : f.src.seg = t}

MergedFiles == {f \in output_dir.files : f.src.seg >= 0}

RECURSIVE SumTo(_, _)
SumTo(count, t) == IF t = 0 THEN 0 ELSE SumTo(count, t - 1) + count[t - 1]

\* C1: once a worker has reported success = false, the run never merges or
\* cleans up: "output" holds exactly the files it held before, frame_counter was
\* never started, "tmp_segments" and the directory of every started engine are
\* still there, and the process never exits with status zero.
C1_AllOrNothing ==
    FailureReported =>
        /\ pc \notin {"merge", "cleanup"}
        /\ output_dir.files = output_initial
        /\ frame_counter = 0
        /\ \A t \in Threads : merge_input[t] = <<>>
        /\ tmp_exists
        /\ \A t \in Threads : engine[t] # "none" => seg_dirs[t].exists
        /\ pc = "exited" => exit_code = 1

\* C1 witness: the run has ended with status 1 after segment 1 failed, while
\* segment 0 succeeded and its frames are still in its directory
C1_Witness ==
    /\ pc = "exited" /\ exit_code = 1
    /\ received = << <<0, TRUE>>, <<1, FALSE>> >>
    /\ Cardinality(FramesIn(0)) = 2
    /\ output_initial # {}

\* C2 (as claimed): after the merge of a run whose workers all succeeded, with
\* k_t the PNG frames of segment t's directory, "output" holds exactly the
\* files video00001.png .. video<sum k_t>.png, and every frame of every segment
\* is exactly one of them.
C2_NoGapNoDuplicate ==
    pc = "cleanup" =>
        LET k == [t \in Threads |-> Cardinality(FramesIn(t)) + Cardinality(MergedFrom(t))]
            total == SumTo(k, num_threads)
        IN  /\ {f.name : f \in output_dir.files} = {VideoName(g) : g \in 1..total}
            /\ Cardinality(output_dir.files) = total
            /\ \A t \in Threads : FramesIn(t) = {}
            /\ MergedFiles = output_dir.files

\* the number of frames the merge took before it came to segment t
Offset(t) == SumTo([u \in Threads |-> Len(merge_input[u])], t)

\* C3: the file of "output" that came from segment t is named by the number
\* of frames the merge took from the segments 0..t-1 plus its position among
\* the sorted frames of t: a function of the directories alone, whatever the
\* order in which the reports arrived.
C3_ArrivalOrderIndependent ==
    \A f \in MergedFiles :
        \E p \in 1..Len(merge_input[f.src.seg]) :
            /\ merge_input[f.src.seg][p].name = f.src.name
            /\ f.name = VideoName(Offset(f.src.seg) + p)

\* C3 witness: the report of segment 1 arrived before the report of segment
\* 0, and the merge has moved frames of both
C3_Witness ==
    /\ pc = "cleanup"
    /\ received = << <<1, TRUE>>, <<0, TRUE>> >>
    /\ MergedFrom(0) # {}
    /\ MergedFrom(1) # {}

\* the local number of a frame of the engine, from its file name
LocalNumber(name) == DigitsValue(FrameKey(name)[1])

\* the global number of a file video<number>.png, from its name
GlobalNumberOf(name) == DigitsValue(SubSeq(name, 6, Len(name) - 4))

\* every listing and every move of the merge succeeded
MergeComplete == pc = "cleanup" /\ \A t \in Threads : FramesIn(t) = {}

\* C4: after a merge in which every listing and every move succeeded, the
\* frame with local number j of segment t is video<k_0 + .. + k_(t-1) + j>.png,
\* k_u being the frames of segment u; so of two frames the one with the
\* smaller (segment, local number) has the smaller global number.
C4_MergeOrder ==
    MergeComplete =>
        LET k == [t \in Threads |-> Cardinality(MergedFrom(t))]
        IN  /\ \A f \in MergedFiles :
                f.name = VideoName(SumTo(k, f.src.seg) + LocalNumber(f.src.name))
            /\ \A f, g \in MergedFiles :
                (\/ f.src.seg < g.src.seg
                 \/ /\ f.src.seg = g.src.seg
                    /\ LocalNumber(f.src.name) < LocalNumber(g.src.name))
                => GlobalNumberOf(f.name) < GlobalNumberOf(g.name)

\* C4 witness: two segments of two frames each are merged; frame 2 of segment
\* 1 is video00004.png and frame 2 of segment 0 is video00002.png
C4_Witness ==
    /\ MergeComplete
    /\ Merged(4, 1, SegmentFrameName(2)) \in output_dir.files
    /\ Merged(2, 0, SegmentFrameName(2)) \in output_dir.files

\* C5: a worker has sent exactly one report when its closure has returned and
\* none before; the main thread leaves Processing only with the reports of all
\* N workers received and every worker returned, also when a failure arrived
\* first; and while "output" is being written or has been written, no worker
\* thread and no engine is running.
C5_FanInBarrier ==
    /\ \A t \in Threads :
        Cardinality(ReportsOf(t)) = IF wpc[t] = "done" THEN 1 ELSE 0
    /\ LeftProcessing =>
        /\ Len(received) = num_threads
        /\ chan = <<>>
        /\ \A t \in 0..(num_threads - 1) : wpc[t] = "done"
    /\ (pc \in {"merge", "cleanup"} \/ frame_counter > 0
            \/ output_dir.files # output_initial) =>
        \A t \in Threads : wpc[t] \in {"unspawned", "done"} /\ engine[t] # "running"

\* C5 witness: the failure of segment 1 arrived first, the main thread still
\* received the report of segment 0 before it ended the run
C5_Witness ==
    /\ pc = "exited" /\ exit_code = 1
    /\ received = << <<1, FALSE>>, <<0, TRUE>> >>

\* the step sends the report (t, success)
Sends(t, success) == chan' = Append(chan, <<t, success>>)

\* the step ends the worker t that was at `from`
Ends(t, from) == wpc[t] = from /\ wpc'[t] = "done"

ReadFailed(t) == drained[t] \in {"error", "error_marked"}

\* no engine is started a second time, a returned worker stays returned, and a
\* step of one worker leaves every other worker and engine as they are
NoRetryNoAbort ==
    \A t \in Threads :
        /\ engine[t] # "none" => engine'[t] # "none" /\ engine_args'[t] = engine_args[t]
        /\ engine[t] \in {"reaped", "exited"} => engine'[t] = engine[t]
        /\ wpc[t] = "done" => wpc'[t] = "done"
        /\ wpc'[t] # wpc[t] =>
            \A u \in Threads \ {t} : wpc'[u] = wpc[u] /\ engine'[u] = engine[u]

\* C6 (as claimed): a worker reports false when the engine cannot be spawned,
\* when it exits non-zero and when reading its stderr fails; it never retries
\* and stops no sibling.
C6_FailureReporting ==
    [][ /\ \A t \in Threads :
            /\ Ends(t, "spawn") => Sends(t, FALSE)
            /\ (Ends(t, "wait") /\ engine'[t] = "reaped" /\ engine_status'[t] # 0)
                  => Sends(t, FALSE)
            /\ (Ends(t, "wait") /\ ReadFailed(t)) => Sends(t, FALSE)
        /\ NoRetryNoAbort ]_vars

\* C6 (amended): a worker reports false when the engine cannot be spawned and
\* when it exits non-zero; a failure to read its stderr only ends the reading:
\* the report is then true for exit status zero and false otherwise; the worker
\* never retries and stops no sibling.
C6_FailureReportingAmended ==
    [][ /\ \A t \in Threads :
            /\ Ends(t, "spawn") => Sends(t, FALSE)
            /\ (Ends(t, "wait") /\ engine'[t] = "reaped" /\ engine_status'[t] # 0)
                  => Sends(t, FALSE)
            /\ (Ends(t, "wait") /\ ReadFailed(t) /\ engine'[t] = "reaped")
                  => Sends(t, engine_status'[t] = 0)
        /\ NoRetryNoAbort ]_vars

\* C6 witness: the engine of segment 1 exited non-zero and its worker reported
\* false, while the worker of segment 0 is still reading its engine's stderr
C6_Witness ==
    /\ wpc[1] = "done" /\ engine[1] = "reaped" /\ engine_status[1] = 1
    /\ Reports = << <<1, FALSE>> >>
    /\ wpc[0] = "drain" /\ engine[0] = "running"

\* the report of a returned worker
ReportOf(t) == Reports[CHOOSE k \in 1..Len(Reports) : Reports[k][1] = t][2]

\* C7 (as claimed): a worker whose engine was spawned reports true exactly
\* when the engine exits with status zero.
C7_ExitStatusOnly ==
    \A t \in Threads :
        (wpc[t] = "done" /\ engine[t] # "none") =>
            (ReportOf(t) <=> (engine[t] \in {"reaped", "exited"} /\ engine_status[t] = 0))

\* C7 (amended): a worker whose engine was spawned reports true exactly when
\* cmd.wait() succeeds and returns exit status zero, and false when the wait
\* fails; whatever the stderr loop read, with or without "error" or "fail" in
\* a line, and however it ended, the report is the same.
C7_ExitStatusOnlyAmended ==
    [][ \A t \in Threads :
            \A d \in {"eof", "eof_marked", "error", "error_marked"} :
                (Ends(t, "wait") /\ drained[t] = d) =>
                    /\ Sends(t, engine'[t] = "reaped" /\ engine_status'[t] = 0)
                    /\ engine'[t] # "reaped" => engine'[t] = engine[t] ]_vars

\* C7 witness: the engine of segment 0 was reaped with status 0 and reported
\* true; the wait for the engine of segment 1 failed and was reported false
C7_Witness ==
    /\ wpc[0] = "done" /\ engine[0] = "reaped" /\ engine_status[0] = 0
    /\ wpc[1] = "done" /\ engine[1] = "running"
    /\ received = << <<0, TRUE>>, <<1, FALSE>> >>

\* every worker of the plan reported success
AllWorkersSucceeded ==
    /\ num_threads >= 1
    /\ Len(received) = num_threads
    /\ \A k \in 1..Len(received) : received[k][2]
    /\ {received[k][1] : k \in 1..Len(received)} = 0..(num_threads - 1)

\* C8: the process ends with status 0 or 1; it is 0 exactly when the plan was
\* made (all inputs exist, the probe's output parsed) and all N workers reported
\* success, and 1 after any earlier exit and after any failure report.
C8_ExitStatus ==
    pc = "exited" =>
        /\ exit_code \in {0, 1}
        /\ exit_code = 0 <=> AllWorkersSucceeded
        /\ (total_duration = Unset \/ FailureReported) => exit_code = 1

\* C8 witness: a run of two workers that both succeeded has ended with status 0
C8_Witness ==
    /\ pc = "exited" /\ exit_code = 0
    /\ num_threads = 2
    /\ AllWorkersSucceeded

\* C9 (as claimed): after a run that ended with status zero, every file of
\* "output" is a frame the merge of this run moved there.
C9_OutputPurity ==
    (pc = "exited" /\ exit_code = 0) => output_dir.files = MergedFiles

\* the probe's output parsed as a finite number that is not negative
NonNegative(x) == x.k = "num" /\ x.n >= 0

\* C11 (as claimed): for every N >= 1 and every duration D >= 0, D = 0
\* included, the start offsets given to the engines are strictly increasing in
\* the segment index.
C11_StrictlyIncreasing ==
    NonNegative(total_duration) =>
        \A t, u \in Started : t < u => RatLess(SegStart(t), SegStart(u))

\* C11 (amended): for every N >= 1 and every finite D >= 0 the start offsets
\* never decrease with the segment index; they are strictly increasing exactly
\* when the segment length D/N is greater than zero, and for D = 0 every
\* segment starts at 0.
C11_OffsetsAmended ==
    NonNegative(total_duration) =>
        \A t, u \in Started :
            t < u =>
                /\ ~RatLess(SegStart(u), SegStart(t))
                /\ RatLess(Zero, engine_args[t].len) <=> RatLess(SegStart(t), SegStart(u))
                /\ total_duration = Zero => SegStart(t) = Zero /\ SegStart(u) = Zero

\* C11 witness: a duration of one millisecond is split in two, and the second
\* engine starts later than the first
C11_Witness ==
    /\ total_duration = Num(1, 1000)
    /\ num_threads = 2
    /\ Started = {0, 1}
    /\ RatLess(SegStart(0), SegStart(1))

\* the probe is over and gave no finite number >= 0: it could not be run, it
\* exited non-zero, or its text is no number, a negative one, or not finite
ProbeRejected ==
    /\ pc \notin {"start", "platform", "validate", "mkoutput", "mktmp", "probe"}
    /\ output_dir.exists /\ tmp_exists
    /\ ~NonNegative(total_duration)

\* C12 (as claimed): when the probe cannot be run, exits non-zero or prints a
\* text that is no non-negative finite number, the process ends with status 1,
\* no segment is planned, no worker is started and no engine is spawned.
C12_ProbeFailureFatal ==
    ProbeRejected =>
        /\ pc = "exited" /\ exit_code = 1
        /\ num_threads = 0 /\ segment_duration = Unset
        /\ \A t \in Threads : wpc[t] = "unspawned" /\ engine[t] = "none"

\* the positions of the frames the merge took from segment t and left in its
\* directory: the frames whose rename failed
Skipped(t) == {p \in 1..Len(merge_input[t]) : merge_input[t][p] \in seg_dirs[t].entries}

RECURSIVE SkippedUpTo(_)
SkippedUpTo(t) == IF t = 0 THEN 0 ELSE SkippedUpTo(t - 1) + Cardinality(Skipped(t - 1))

\* C13: a rename that fails skips that frame and nothing else: while the merge
\* runs and when it is over, the frames left in the directories are as many as
\* the renames that failed, and every other frame the merge took is in "output"
\* under its number; the step in which a rename fails goes on with the next
\* segment, the merge then goes on to the cleanup, the cleanup still runs, and
\* the process ends with status zero.
C13_BestEffortMerge ==
    [][ /\ pc' \in {"merge", "cleanup"} =>
            /\ SkippedUpTo(MaxThreads)' = move_failures'
            /\ \A t \in Threads : \A p \in 1..Len(merge_input'[t]) :
                 \/ merge_input'[t][p] \in seg_dirs'[t].entries
                 \/ Merged(Offset(t)' + p, t, merge_input'[t][p].name) \in output_dir'.files
        /\ move_failures' > move_failures =>
            pc' = "merge" /\ merge_thread' = merge_thread + 1 /\ exit_code' = -1
        /\ (move_failures > 0 /\ pc = "merge") => pc' \in {"merge", "cleanup"}
        /\ (move_failures > 0 /\ pc = "cleanup") => pc' = "exited" /\ exit_code' = 0
        /\ (move_failures > 0 /\ pc = "exited") => pc' = "exited" /\ exit_code' = 0
      ]_vars

\* C13 witness: the rename of the first of two frames of segment 0 failed; the
\* second one is video00002.png, the frames of segment 1 were merged behind it,
\* and the process has ended with status zero
C13_Witness ==
    /\ pc = "exited" /\ exit_code = 0
    /\ move_failures = 1
    /\ Skipped(0) = {1}
    /\ Merged(2, 0, SegmentFrameName(2)) \in output_dir.files
    /\ MergedFrom(1) # {}

\* the entries of segment t's directory that are PNG files, told by the entries
\* themselves: every entry but the strays
PngFilesOf(dir) == dir.entries \ Strays

\* C14: an iteration of the merge leaves every entry that is no regular file
\* or has no png extension where it is, takes nothing but PNG files, and
\* advances frame_counter by the number of frames it took; a directory without
\* PNG file changes neither frame_counter nor "output", and the merge goes on
\* with the next segment and then to the cleanup. After a merge in which every
\* listing and move succeeded, the merged files are video00001.png up to the
\* number of PNG files of all segments, without a gap.
C14_StraysTolerated ==
    [][ /\ (pc = "merge" /\ merge_thread < num_threads) =>
            LET dir == seg_dirs[merge_thread]
                taken == {merge_input'[merge_thread][p] :
                              p \in 1..Len(merge_input'[merge_thread])}
            IN  /\ pc' = "merge" /\ merge_thread' = merge_thread + 1 /\ exit_code' = -1
                /\ dir.entries \cap Strays \subseteq seg_dirs'[merge_thread].entries
                /\ taken \subseteq PngFilesOf(dir)
                /\ frame_counter' = frame_counter + Cardinality(taken)
                /\ taken # {} => taken = PngFilesOf(dir)
                /\ PngFilesOf(dir) = {} =>
                      frame_counter' = frame_counter /\ output_dir' = output_dir
        /\ (pc = "merge" /\ merge_thread = num_threads) => pc' = "cleanup"
        /\ pc = "cleanup" => pc' = "exited" /\ exit_code' = 0
        /\ (pc = "merge" /\ pc' = "cleanup" /\ move_failures = 0
                /\ \A t \in Threads : PngFilesOf(seg_dirs[t]) = {}) =>
              {f.name : f \in MergedFiles} = {VideoName(g) : g \in 1..Cardinality(MergedFiles)}
      ]_vars

\* C14 witness: the directory of segment 0 held nothing but strays, which are
\* still there; the frame of segment 1 is video00001.png and the strays of
\* segment 1 stayed behind
C14_Witness ==
    /\ pc = "cleanup"
    /\ seg_dirs[0].entries = Strays
    /\ seg_dirs[1].entries = Strays
    /\ MergedFiles = {Merged(1, 1, SegmentFrameName(1))}

\* C18 (as claimed): the order in which the merge takes the PNG files of a
\* segment directory, and with it their global numbers, is the same for every
\* order in which the listing may return the directory's entries, also when
\* two or more file names have no numeric stem.
C18_ListingOrderIndependent ==
    (pc = "merge" /\ merge_thread < num_threads) =>
        \A l1, l2 \in Listings(seg_dirs[merge_thread].entries) :
            SortFrames(SelectFrames(l1)) = SortFrames(SelectFrames(l2))

\* the phase of the run the main thread is in
Phase(at, code) ==
    CASE at \in {"start", "platform", "validate", "mkoutput", "mktmp"} -> "Init"
      [] at = "probe" -> "Probing"
      [] at = "plan" -> "Planning"
      [] at \in {"spawn", "collect"} -> "Processing"
      [] at = "merge" -> "Merging"
      [] at = "cleanup" -> "Cleanup"
      [] at = "exited" -> IF code = 0 THEN "Done" ELSE "Aborted"

\* the order of the phases; a fatal error before Processing aborts as well
PhaseOrder ==
    { <<"Init", "Probing">>, <<"Probing", "Planning">>, <<"Planning", "Processing">>,
      <<"Processing", "Merging">>, <<"Merging", "Cleanup">>, <<"Cleanup", "Done">>,
      <<"Init", "Aborted">>, <<"Probing", "Aborted">>, <<"Processing", "Aborted">> }

\* C15: a step changes the phase only along Init, Probing, Planning,
\* Processing, then Merging, Cleanup, Done or Aborted; Processing is left for
\* Merging only when all N workers reported success and for Aborted only when a
\* worker reported a failure; Done and Aborted are never left; and an engine is
\* started only by a worker that has started none before, so at most once for
\* a segment.
C15_PhaseOrder ==
    [][ LET a == Phase(pc, exit_code)
            b == Phase(pc', exit_code')
        IN  /\ a # b => <<a, b>> \in PhaseOrder
            /\ (a = "Processing" /\ b = "Merging") => AllWorkersSucceeded /\ ~FailureReported
            /\ (a = "Processing" /\ b = "Aborted") => FailureReported
            /\ a \in {"Done", "Aborted"} => pc' = pc /\ exit_code' = exit_code
            /\ \A t \in Threads :
                /\ (engine'[t] = "running" /\ engine[t] # "running") =>
                      engine[t] = "none" /\ wpc[t] = "spawn" /\ wpc'[t] = "drain"
                /\ (wpc'[t] = "spawn" /\ wpc[t] # "spawn") => wpc[t] = "mkdir"
                /\ (wpc'[t] = "mkdir" /\ wpc[t] # "mkdir") =>
                      wpc[t] = "unspawned" /\ Phase(pc, exit_code) = "Processing"
      ]_vars

\* C15 witness: a run of one worker went through Processing, its engine was
\* started once and exited with status 1, and the run is Aborted
C15_Witness ==
    /\ Phase(pc, exit_code) = "Aborted"
    /\ num_threads = 1
    /\ received = << <<0, FALSE>> >>
    /\ engine[0] = "reaped" /\ engine_status[0] = 1

\* C16: the cleanup runs only behind the merge of a run whose N workers all
\* reported success; its step ends the process with status zero and leaves
\* "output" as the merge left it, whether the removal succeeds, and then
\* "tmp_segments" and every segment directory are gone, or fails, and then
\* they are left in place.
C16_Cleanup ==
    [][ pc = "cleanup" =>
            /\ AllWorkersSucceeded
            /\ merge_thread = num_threads
            /\ pc' = "exited" /\ exit_code' = 0
            /\ output_dir' = output_dir
            /\ \/ ~tmp_exists' /\ \A t \in Threads : seg_dirs'[t] = NoDir
               \/ tmp_exists' /\ tmp_exists /\ seg_dirs' = seg_dirs
      ]_vars

\* C16 witness: the removal failed: the process has ended with status zero,
\* "tmp_segments" and the directory of segment 0 are still there, and the
\* merged frames are in "output"
C16_Witness ==
    /\ pc = "exited" /\ exit_code = 0
    /\ tmp_exists /\ seg_dirs[0].exists
    /\ Merged(1, 0, SegmentFrameName(1)) \in output_dir.files
    /\ move_failures = 0

\* the worker of segment t ended in its setup: it has returned, started no
\* engine and made no directory of its own
SetupFailed(t) == wpc[t] = "done" /\ engine[t] = "none" /\ seg_dirs[t] # EmptyDir

\* C17: a worker whose create_dir fails reports (t, false) and returns; it
\* starts no engine and leaves every segment directory as it is; create_dir
\* does fail when the directory is already there. Behind such a failure the run
\* never merges: "output" stays as it was, and the main thread, once it has all
\* N reports, ends the process with status 1.
C17_SetupFailure ==
    [][ \A t \in Threads :
            /\ Ends(t, "mkdir") =>
                /\ Sends(t, FALSE)
                /\ engine[t] = "none" /\ engine'[t] = "none" /\ engine_args'[t] = <<>>
                /\ seg_dirs' = seg_dirs
            /\ (wpc[t] = "mkdir" /\ seg_dirs[t].exists /\ wpc'[t] # wpc[t]) => Ends(t, "mkdir")
            /\ SetupFailed(t) =>
                /\ engine'[t] = "none" /\ seg_dirs'[t] = seg_dirs[t]
                /\ pc' \notin {"merge", "cleanup"}
                /\ output_dir'.files = output_initial /\ frame_counter' = 0
                /\ pc' = "exited" => exit_code' = 1 /\ Len(received') = num_threads
      ]_vars

\* C17 witness: the directory of segment 0 was already there, with a file in
\* it; its worker reported false and started no engine, the engine of segment
\* 1 ended with status 0, and the run ended with status 1 with the file still
\* alone in that directory
C17_Witness ==
    /\ pc = "exited" /\ exit_code = 1
    /\ SetupFailed(0) /\ seg_dirs[0] = LeftoverSegment
    /\ received = << <<0, FALSE>>, <<1, TRUE>> >>
    /\ engine[1] = "reaped" /\ engine_status[1] = 0

\* "tmp_segments" exists and holds nothing
TmpFresh == tmp_exists /\ \A t \in Threads : seg_dirs[t] = NoDir

\* C20: the step behind the creation of "output" either leaves "tmp_segments"
\* existing and empty and goes on to the probe, or ends the process with status
\* 1 with no probe made and no worker started; "tmp_segments" is still empty
\* when the first worker is started; and the merge takes frames only from
\* directories whose engine was started and reaped in this run, so never what
\* an earlier run left.
C20_FreshWorkingState ==
    [][ /\ pc = "mktmp" =>
            \/ pc' = "probe" /\ TmpFresh' /\ exit_code' = -1
            \/ /\ pc' = "exited" /\ exit_code' = 1
               /\ total_duration' = Unset
               /\ \A t \in Threads : wpc'[t] = "unspawned" /\ engine'[t] = "none"
        /\ (\A t \in Threads : wpc[t] = "unspawned")
              /\ (\E t \in Threads : wpc'[t] # "unspawned") => TmpFresh
        /\ \A t \in Threads :
              merge_input'[t] # <<>> => engine'[t] = "reaped" /\ engine_status'[t] = 0
        /\ pc' \in {"merge", "cleanup"} =>
              \A t \in 0..(num_threads' - 1) : engine'[t] = "reaped"
      ]_vars

\* C20 witness: an earlier run left a segment directory with a frame in
\* "tmp_segments"; its removal failed, and the process has ended with status 1
\* before the probe, with the old directory still there
C20_Witness ==
    /\ pc = "exited" /\ exit_code = 1
    /\ output_dir.exists
    /\ tmp_exists /\ seg_dirs[0] = LeftoverSegment
    /\ total_duration = Unset
    /\ \A t \in Threads : wpc[t] = "unspawned"

\* C19 (as claimed): when every engine has a finite amount to write to its
\* stdout and stderr pipes and exits once its writes are accepted, every run
\* ends: the process exits, with status zero (Done) or not (Aborted).
C19_Termination == <>(pc = "exited")

====
